---- MODULE Spec2Model ----
(***************************************************************************)
(* Financial-news ETL pipeline: extract_news.py, validate_data.py,         *)
(* transform_sentiment.py, load_to_database.py and run_pipeline.py.        *)
(*                                                                         *)
(* A DataFrame is a record [cols, rows]: the set of column names and the   *)
(* sequence of rows.  A row carries the cells the code inspects: title,    *)
(* description, publishedAt, extracted_at, sentiment_compound and          *)
(* sentiment_label.  A cell of a column that is not in cols holds the      *)
(* placeholder of that column and is never read.                           *)
(***************************************************************************)
EXTENDS Integers, Sequences, FiniteSets, TLC

VARIABLES pc, response, df_raw, df_clean, quality_report, df_final,
          pipeline_status, files, called, outcome, db, dbAvailable, loadHist,
          df_input      \* the table validate_news_data was last called with,
                        \* as it was before the call

vars == <<pc, response, df_raw, df_clean, quality_report, df_final,
          pipeline_status, files, called, outcome, db, dbAvailable, loadHist,
          df_input>>

(***************************************************************************)
(* Bounds of the model.                                                    *)
(***************************************************************************)
MaxRows == 3
MaxArticles == 3
MaxLoadRows == 1
MaxScored == 2
MaxTime == 2

(***************************************************************************)
(* Cells.  A text cell is null (NaN/None) or a string, of which the code   *)
(* reads the identity (for duplicate detection) and the length.            *)
(***************************************************************************)
NullText == [isnull |-> TRUE, id |-> 0, len |-> 0]
Text(i, n) == [isnull |-> FALSE, id |-> i, len |-> n]

Titles == {NullText, Text(1, 9), Text(2, 10)}
Descriptions == {NullText, Text(1, 19), Text(2, 20)}

\* publishedAt as delivered: 1 and 2 are two spellings of the same instant
\* ("...T12:00:00Z" and "...T12:00:00+00:00"), 3 is another instant.
PubValues == {1, 2, 3}

\* pd.to_datetime: every spelling of an instant becomes that instant.
ToDatetime(p) == IF p = 2 THEN 1 ELSE p

Times == 1..MaxTime

\* compound score in ten-thousandths (VADER rounds compound to 4 decimals).
Scores == {-10000, -501, -500, -499, 0, 499, 500, 501, 10000}

Row(t, d, p) ==
    [title |-> t, description |-> d, publishedAt |-> p, extracted_at |-> 0,
     sentiment_compound |-> 0, sentiment_label |-> "unset"]

\* every combination of title and description under the two spellings of the
\* first instant, and a well-formed article of the other instant
Rows == {Row(t, d, p) : t \in Titles, d \in Descriptions,
                         p \in {q \in PubValues : ToDatetime(q) = 1}}
        \cup {Row(Text(2, 10), Text(2, 20), p) : p \in PubValues}

SeqsUpTo(S, n) == UNION {[1..k -> S] : k \in 0..n}

DataFrame(c, r) == [cols |-> c, rows |-> r]

\* pd.DataFrame()
EmptyDataFrame == DataFrame({}, <<>>)

\* DataFrame.empty: no rows or no columns
IsEmpty(df) == Len(df.rows) = 0 \/ df.cols = {}

(***************************************************************************)
(* extract_news.py                                                         *)
(***************************************************************************)
ApiColumns == {"title", "description", "url", "publishedAt", "source"}

\* the article lists the API is modelled to answer with
ApiRows == {Row(Text(2, 10), Text(2, 20), 1),
            Row(Text(2, 10), Text(2, 20), 2),
            Row(Text(2, 10), Text(2, 20), 3),
            Row(Text(1, 9), Text(2, 20), 1),
            Row(Text(2, 10), NullText, 3)}

ApiColumnSets == {ApiColumns} \cup {ApiColumns \ {c} : c \in ApiColumns}

ApiTables == {DataFrame(c, r) : c \in ApiColumnSets, r \in SeqsUpTo(ApiRows, MaxArticles)}

\* What requests.get(...) produces: a transport failure (connection error,
\* timeout), or a response with a status class (redirects are followed by the
\* client, so the final response is 2xx or an error status), whose body is
\* JSON or not, with or without the "status" and "articles" members.
Response(t, h, j, s, a) ==
    [transport |-> t, http |-> h, json |-> j, status |-> s, articles |-> a]

NoArticles == [cols |-> {"absent"}, rows |-> <<>>]

Bodies ==
    {Response("ok", "2xx", FALSE, "absent", NoArticles),
     Response("ok", "2xx", TRUE, "absent", NoArticles),
     Response("ok", "2xx", TRUE, "error", NoArticles),
     Response("ok", "2xx", TRUE, "ok", NoArticles)}
    \cup {Response("ok", "2xx", TRUE, "ok", a) : a \in ApiTables}

Responses ==
    {Response("error", "none", FALSE, "absent", NoArticles)}
    \cup {[b EXCEPT !.http = h] : b \in Bodies, h \in {"2xx", "4xx", "5xx"}}

\* lines 69-77: source_name, publishedAt parsed, extracted_at stamped
ExtractRow(r, now) ==
    [r EXCEPT !.publishedAt = ToDatetime(r.publishedAt), !.extracted_at = now]

\* the try block, lines 53-86: the exception it ends with, or the table it
\* returns
TryExtract(resp, now) ==
    IF resp.transport # "ok" THEN [exc |-> "RequestException", df |-> EmptyDataFrame]
    ELSE IF resp.http # "2xx"                                  \* raise_for_status
         THEN [exc |-> "RequestException", df |-> EmptyDataFrame]
    ELSE IF ~resp.json THEN [exc |-> "ValueError", df |-> EmptyDataFrame]
    ELSE IF resp.status = "absent" THEN [exc |-> "KeyError", df |-> EmptyDataFrame]
    ELSE IF resp.status # "ok" THEN [exc |-> "none", df |-> EmptyDataFrame]
    ELSE IF resp.articles = NoArticles THEN [exc |-> "KeyError", df |-> EmptyDataFrame]
    ELSE IF IsEmpty(resp.articles) THEN [exc |-> "none", df |-> EmptyDataFrame]
    ELSE IF "source" \notin resp.articles.cols \/ "publishedAt" \notin resp.articles.cols
         THEN [exc |-> "KeyError", df |-> EmptyDataFrame]
    ELSE [exc |-> "none",
          df |-> DataFrame(resp.articles.cols \cup {"source_name", "extracted_at"},
                           [i \in 1..Len(resp.articles.rows) |->
                               ExtractRow(resp.articles.rows[i], now)])]

\* a handler that lets everything but RequestException through
HandlersCatchRequestOnly(exc) == exc = "RequestException"

\* lines 88-93: `except requests.exceptions.RequestException` and
\* `except Exception` between them catch every exception
HandlersCatch(exc) == exc \in {"RequestException", "ValueError", "KeyError"}

\* extract_financial_news: [raised, df]; both handlers return pd.DataFrame()
extract_financial_news(resp, now) ==
    LET t == TryExtract(resp, now)
    IN  IF t.exc = "none" THEN [raised |-> FALSE, df |-> t.df]
        ELSE IF HandlersCatch(t.exc) THEN [raised |-> FALSE, df |-> EmptyDataFrame]
        ELSE [raised |-> TRUE, df |-> EmptyDataFrame]

(***************************************************************************)
(* validate_data.py                                                        *)
(***************************************************************************)
MinTitleLen == 10
MinDescriptionLen == 20
HighRemovalPct == 50

\* the report of the early return for an empty table: status and reason only
EmptyReport ==
    [status |-> "FAILED", reason |-> "Empty dataframe", has_counts |-> FALSE,
     initial_records |-> 0, final_records |-> 0, removed_records |-> 0,
     removal_percentage |-> [num |-> 0, den |-> 1],
     missing_title |-> 0, missing_description |-> 0, duplicates |-> 0,
     has_freshness |-> FALSE, short_titles |-> 0, short_descriptions |-> 0]

NoReport == [EmptyReport EXCEPT !.status = "none", !.reason = "none"]

SameArticle(r1, r2) == r1.title = r2.title /\ r1.publishedAt = r2.publishedAt

\* df.duplicated(subset=['title', 'publishedAt']): a row is marked when an
\* earlier row has the same pair (nulls compare equal)
IsDuplicated(rows, i) == \E j \in 1..(i - 1) : SameArticle(rows[j], rows[i])

\* a count that marks every member of a repeated pair (keep=False)
CountDuplicatesAllOccurrences(rows) ==
    Cardinality({i \in 1..Len(rows) :
                    \E j \in 1..Len(rows) : j # i /\ SameArticle(rows[j], rows[i])})

CountDuplicates(rows) == Cardinality({i \in 1..Len(rows) : IsDuplicated(rows, i)})

\* df.drop_duplicates(subset=['title', 'publishedAt']): keep first
RECURSIVE DropDuplicatesFrom(_, _)
DropDuplicatesFrom(rows, kept) ==
    IF rows = <<>> THEN kept
    ELSE IF \E k \in 1..Len(kept) : SameArticle(kept[k], Head(rows))
         THEN DropDuplicatesFrom(Tail(rows), kept)
         ELSE DropDuplicatesFrom(Tail(rows), Append(kept, Head(rows)))

\* cleaning without the drop_duplicates call
DropDuplicatesKeepsAll(rows) == rows

DropDuplicates(rows) == DropDuplicatesFrom(rows, <<>>)

\* df.dropna(subset=['title', 'description'])
DropNa(rows) ==
    SelectSeq(rows, LAMBDA r : ~r.title.isnull /\ ~r.description.isnull)

\* df[field].isnull().sum()
CountMissingTitles(rows) == Cardinality({i \in 1..Len(rows) : rows[i].title.isnull})
CountMissingDescriptions(rows) ==
    Cardinality({i \in 1..Len(rows) : rows[i].description.isnull})

\* df['title'].str.len() < 10: a null cell has length NaN, which compares False
IsShortTitle(r) == ~r.title.isnull /\ r.title.len < MinTitleLen
IsShortDescription(r) == ~r.description.isnull /\ r.description.len < MinDescriptionLen

CountShortTitles(rows) == Cardinality({i \in 1..Len(rows) : IsShortTitle(rows[i])})
CountShortDescriptions(rows) ==
    Cardinality({i \in 1..Len(rows) : IsShortDescription(rows[i])})

\* df[df['title'].str.len() >= 10]
KeepLongTitles(rows) ==
    SelectSeq(rows, LAMBDA r : ~r.title.isnull /\ r.title.len >= MinTitleLen)

\* df[df['description'].str.len() >= 20]
KeepLongDescriptions(rows) ==
    SelectSeq(rows, LAMBDA r : ~r.description.isnull /\ r.description.len >= MinDescriptionLen)

\* lines 109-124
CleanRows(rows) == KeepLongDescriptions(KeepLongTitles(DropDuplicates(DropNa(rows))))

\* removed / initial_count * 100, kept as an exact fraction
RemovalPercentage(removed, initial) == [num |-> removed * 100, den |-> initial]

\* `>= 50` instead of `> 50`
IsHighRemovalInclusive(pct) == pct.num >= HighRemovalPct * pct.den

\* quality_report['removal_percentage'] > 50
IsHighRemoval(pct) == pct.num > HighRemovalPct * pct.den

\* lines 140-147
ReportStatus(final_count, pct) ==
    IF final_count = 0 THEN "FAILED"
    ELSE IF IsHighRemoval(pct) THEN "WARNING"
    ELSE "PASSED"

ReportReason(status) ==
    IF status = "FAILED" THEN "No records after cleaning"
    ELSE IF status = "WARNING" THEN "High removal rate"
    ELSE "none"

\* check 3 assigns df['publishedAt'] = pd.to_datetime(...) on the caller's
\* table, and only when check 2 found no duplicate
CheckedRows(rows) ==
    IF CountDuplicates(rows) = 0
    THEN [i \in 1..Len(rows) |->
             [rows[i] EXCEPT !.publishedAt = ToDatetime(rows[i].publishedAt)]]
    ELSE rows

\* validate_news_data(df): [raised, df (the caller's table afterwards),
\* df_clean, report].  KeyError: duplicated() without title or publishedAt,
\* dropna() without description.
validate_news_data(df) ==
    IF IsEmpty(df)
    THEN [raised |-> FALSE, df |-> df, df_clean |-> df, report |-> EmptyReport]
    ELSE IF "title" \notin df.cols \/ "publishedAt" \notin df.cols
    THEN [raised |-> TRUE, df |-> df, df_clean |-> EmptyDataFrame, report |-> NoReport]
    ELSE LET checked == DataFrame(df.cols, CheckedRows(df.rows))
         IN  IF "description" \notin df.cols
             THEN [raised |-> TRUE, df |-> checked, df_clean |-> EmptyDataFrame,
                   report |-> NoReport]
             ELSE LET clean == CleanRows(checked.rows)
                      initial_count == Len(df.rows)
                      final_count == Len(clean)
                      removed == initial_count - final_count
                      pct == RemovalPercentage(removed, initial_count)
                      status == ReportStatus(final_count, pct)
                  IN  [raised |-> FALSE, df |-> checked,
                       df_clean |-> DataFrame(df.cols, clean),
                       report |->
                         [status |-> status, reason |-> ReportReason(status),
                          has_counts |-> TRUE,
                          initial_records |-> initial_count,
                          final_records |-> final_count,
                          removed_records |-> removed,
                          removal_percentage |-> pct,
                          missing_title |-> CountMissingTitles(df.rows),
                          missing_description |-> CountMissingDescriptions(df.rows),
                          duplicates |-> CountDuplicates(df.rows),
                          has_freshness |-> CountDuplicates(df.rows) = 0,
                          short_titles |-> CountShortTitles(checked.rows),
                          short_descriptions |-> CountShortDescriptions(checked.rows)]]

\* save_quality_report writes report['timestamp'], ['initial_records'], ...:
\* the two-key report of an empty table raises KeyError; so does a failed write
save_quality_report(written, report, io_ok) ==
    IF report.has_counts /\ io_ok
    THEN [raised |-> FALSE, files |-> written \cup {"quality_report.txt"}]
    ELSE [raised |-> TRUE, files |-> written]

\* a save that returns without writing
SaveCsvSkipsWrite(written, df, filename, io_ok) == [raised |-> FALSE, files |-> written]

\* save_raw_data / save_transformed_data: df.to_csv unless the table is empty
SaveCsv(written, df, filename, io_ok) ==
    IF IsEmpty(df) THEN [raised |-> FALSE, files |-> written]
    ELSE IF io_ok THEN [raised |-> FALSE, files |-> written \cup {filename}]
    ELSE [raised |-> TRUE, files |-> written]

save_raw_data(written, df, io_ok) == SaveCsv(written, df, "raw_news.csv", io_ok)

(***************************************************************************)
(* transform_sentiment.py                                                  *)
(***************************************************************************)
PositiveThreshold == 500
NegativeThreshold == -500

\* strict comparisons at the two thresholds
categorize_strict(compound_score) ==
    IF compound_score > PositiveThreshold THEN "positive"
    ELSE IF compound_score < NegativeThreshold THEN "negative"
    ELSE "neutral"

\* lines 53-59
categorize_sentiment(compound_score) ==
    IF compound_score >= PositiveThreshold THEN "positive"
    ELSE IF compound_score <= NegativeThreshold THEN "negative"
    ELSE "neutral"

SentimentColumns == {"sentiment_compound", "sentiment_positive", "sentiment_negative",
                     "sentiment_neutral", "sentiment_label"}

DateColumns == {"date", "hour", "day_of_week"}

\* one row of df_with_sentiment: the scorer's compound, the label derived
\* from it, publishedAt parsed when the column exists
EnrichRow(r, compound, has_published) ==
    [r EXCEPT !.sentiment_compound = compound,
              !.sentiment_label = categorize_sentiment(compound),
              !.publishedAt = IF has_published THEN ToDatetime(@) ELSE @]

\* add_sentiment_analysis(df): scores[i] is what analyzer.polarity_scores
\* returns for row i; analyzer_ok is FALSE when the scorer raises.
add_sentiment_analysis(df, scores, analyzer_ok) ==
    IF IsEmpty(df) THEN [raised |-> FALSE, df |-> df]
    ELSE IF ~analyzer_ok THEN [raised |-> TRUE, df |-> EmptyDataFrame]
    ELSE [raised |-> FALSE,
          df |-> DataFrame(
                   df.cols \cup SentimentColumns
                       \cup (IF "publishedAt" \in df.cols THEN DateColumns ELSE {}),
                   [i \in 1..Len(df.rows) |->
                       EnrichRow(df.rows[i], scores[i], "publishedAt" \in df.cols)])]

save_transformed_data(written, df, io_ok) ==
    SaveCsv(written, df, "news_with_sentiment.csv", io_ok)

(***************************************************************************)
(* load_to_database.py.  The database file holds the table news_sentiment  *)
(* or not; a stored row is tagged fresh when the most recent call of       *)
(* load_to_duckdb inserted it.                                             *)
(***************************************************************************)
columns == <<"title", "description", "url", "source_name", "publishedAt", "date",
             "hour", "sentiment_compound", "sentiment_positive", "sentiment_negative",
             "sentiment_neutral", "sentiment_label", "extracted_at">>

SchemaColumns == {columns[i] : i \in 1..Len(columns)}

NoTable == [exists |-> FALSE, rows |-> <<>>]

\* rows of the table without the tags
Contents(d) == [i \in 1..Len(d.rows) |-> d.rows[i].row]

\* CREATE TABLE IF NOT EXISTS without the DROP: the rows stay
CreateIfMissing(d) == [d EXCEPT !.exists = TRUE]

\* DROP TABLE IF EXISTS news_sentiment; CREATE TABLE news_sentiment (...)
DropAndCreate(d) == [exists |-> TRUE, rows |-> <<>>]

\* lines 56-76: extracted_at added when missing, the schema's columns selected
PrepareToLoad(df, now) ==
    DataFrame((df.cols \cup {"extracted_at"}) \cap SchemaColumns,
              [i \in 1..Len(df.rows) |->
                  IF "extracted_at" \in df.cols THEN df.rows[i]
                  ELSE [df.rows[i] EXCEPT !.extracted_at = now]])

\* INSERT INTO news_sentiment SELECT * FROM df_to_load: binds only when the
\* frame has the table's thirteen columns
InsertRows(d, df_to_load) ==
    [d EXCEPT !.rows = @ \o [i \in 1..Len(df_to_load.rows) |->
                                [row |-> df_to_load.rows[i], fresh |-> TRUE]]]

\* the rows of earlier calls, as the next call finds them
Aged(d) == [d EXCEPT !.rows = [i \in 1..Len(@) |-> [@[i] EXCEPT !.fresh = FALSE]]]

\* load_to_duckdb(df, db_path): [success, db]
load_to_duckdb(df, d, available, now) ==
    IF IsEmpty(df) THEN [success |-> FALSE, db |-> Aged(d)]
    ELSE IF ~available THEN [success |-> FALSE, db |-> Aged(d)]   \* duckdb.connect raises
    ELSE LET created == DropAndCreate(Aged(d))
             df_to_load == PrepareToLoad(df, now)
         IN  IF df_to_load.cols # SchemaColumns
             THEN [success |-> FALSE, db |-> created]             \* INSERT raises
             ELSE [success |-> TRUE, db |-> InsertRows(created, df_to_load)]

(***************************************************************************)
(* run_pipeline.py: run_full_pipeline, one action per stage.               *)
(***************************************************************************)
Stages == <<"extract", "validate", "transform", "load">>

\* lines 22-26
NewStatus ==
    [start_time |-> TRUE, end_time |-> FALSE, steps |-> <<>>,
     overall_status |-> "SUCCESS"]

\* pipeline_status['steps'][step] = ...
RecordStep(status, step, result, detail, count) ==
    [status EXCEPT !.steps = Append(@, [step |-> step, result |-> result,
                                        detail |-> detail, count |-> count])]

\* a failure branch that records the step but leaves overall_status as it was
StageFailedKeepsOverall(status, step, detail) ==
    RecordStep(status, step, "FAILED", detail, 0)

\* the failure branches of stages 1-3: overall FAILED, the step recorded
StageFailed(status, step, detail) ==
    [RecordStep(status, step, "FAILED", detail, 0) EXCEPT !.overall_status = "FAILED"]

StageSucceeded(status, step, detail, count) ==
    RecordStep(status, step, "SUCCESS", detail, count)

\* a load failure handled like the failures of stages 1-3
LoadFailedAsFailed(status, detail) ==
    [RecordStep(status, "load", "FAILED", detail, 0) EXCEPT !.overall_status = "FAILED"]

\* lines 106-109 and 113-116
LoadFailed(status, detail) ==
    [RecordStep(status, "load", "FAILED", detail, 0) EXCEPT !.overall_status = "WARNING"]

\* a failure branch without its `return`: the next stage runs
AfterFailureFallsThrough(next_stage) == next_stage

\* `return pipeline_status` in a failure branch: the run is over
AfterFailure(next_stage) == "returned"

NoOutcome == [extract |-> "none", validate |-> "none", transform |-> "none", load |-> "none"]

NoResponse == Response("none", "none", FALSE, "absent", NoArticles)

\* scores the scorer is modelled to return inside a pipeline run
ScoreSamples == {NegativeThreshold, PositiveThreshold}

\* STEP 1, lines 33-49
ExtractStage ==
    /\ pc = "extract"
    /\ \E resp \in Responses, now \in Times, io_ok \in BOOLEAN :
         LET e == extract_financial_news(resp, now)
             reached_save == ~e.raised /\ ~IsEmpty(e.df)
             saved == save_raw_data(files, e.df, io_ok)
             res == IF e.raised THEN "raised"
                    ELSE IF IsEmpty(e.df) THEN "empty"
                    ELSE IF saved.raised THEN "raised" ELSE "ok"
         IN  /\ response' = resp
             /\ df_raw' = e.df
             /\ files' = IF reached_save THEN saved.files ELSE files
             /\ called' = called \o (IF reached_save
                                     THEN <<"extract_financial_news", "save_raw_data">>
                                     ELSE <<"extract_financial_news">>)
             /\ outcome' = [outcome EXCEPT !.extract = res]
             /\ pipeline_status' =
                  IF res = "empty" THEN StageFailed(pipeline_status, "extract", "No data")
                  ELSE IF res = "raised"
                       THEN StageFailed(pipeline_status, "extract", "exception")
                       ELSE StageSucceeded(pipeline_status, "extract", "articles",
                                           Len(e.df.rows))
             /\ pc' = IF res = "ok" THEN "validate" ELSE AfterFailure("validate")
    /\ UNCHANGED <<df_input, df_clean, quality_report, df_final, db, dbAvailable,
                   loadHist>>

\* a runner that also stops on a report that is not PASSED
StopsOnWarning(clean, report) == IsEmpty(clean) \/ report.status = "WARNING"

\* line 59: `if df_clean.empty` is the only thing the runner reads of the result
StopsAfterValidate(clean, report) == IsEmpty(clean)

\* STEP 2, lines 56-72
ValidateStage ==
    /\ pc = "validate"
    /\ \E io_ok \in BOOLEAN :
         LET v == validate_news_data(df_raw)
             stops == StopsAfterValidate(v.df_clean, v.report)
             reached_save == ~v.raised /\ ~stops
             saved == save_quality_report(files, v.report, io_ok)
             res == IF v.raised THEN "raised"
                    ELSE IF stops THEN "empty"
                    ELSE IF saved.raised THEN "raised" ELSE "ok"
         IN  /\ df_input' = df_raw
             /\ df_raw' = v.df
             /\ df_clean' = v.df_clean
             /\ quality_report' = v.report
             /\ files' = IF reached_save THEN saved.files ELSE files
             /\ called' = called \o (IF reached_save
                                     THEN <<"validate_news_data", "save_quality_report">>
                                     ELSE <<"validate_news_data">>)
             /\ outcome' = [outcome EXCEPT !.validate = res]
             /\ pipeline_status' =
                  IF res = "empty"
                  THEN StageFailed(pipeline_status, "validate", "No clean data")
                  ELSE IF res = "raised"
                       THEN StageFailed(pipeline_status, "validate", "exception")
                       ELSE StageSucceeded(pipeline_status, "validate", "clean records",
                                           Len(v.df_clean.rows))
             /\ pc' = IF res = "ok" THEN "transform" ELSE AfterFailure("transform")
    /\ UNCHANGED <<response, df_final, db, dbAvailable, loadHist>>

\* STEP 3, lines 79-96
TransformStage ==
    /\ pc = "transform"
    /\ \E scores \in [1..Len(df_clean.rows) -> ScoreSamples],
          analyzer_ok \in BOOLEAN, io_ok \in BOOLEAN :
         LET t == add_sentiment_analysis(df_clean, scores, analyzer_ok)
             reached_save == ~t.raised /\ ~IsEmpty(t.df)
             saved == save_transformed_data(files, t.df, io_ok)
             res == IF t.raised THEN "raised"
                    ELSE IF IsEmpty(t.df) THEN "empty"
                    ELSE IF saved.raised THEN "raised" ELSE "ok"
         IN  /\ df_final' = t.df
             /\ files' = IF reached_save THEN saved.files ELSE files
             /\ called' = called \o (IF reached_save
                                     THEN <<"add_sentiment_analysis", "save_transformed_data">>
                                     ELSE <<"add_sentiment_analysis">>)
             /\ outcome' = [outcome EXCEPT !.transform = res]
             /\ pipeline_status' =
                  IF res = "empty" THEN StageFailed(pipeline_status, "transform", "")
                  ELSE IF res = "raised"
                       THEN StageFailed(pipeline_status, "transform", "exception")
                       ELSE StageSucceeded(pipeline_status, "transform", "Avg sentiment", 0)
             /\ pc' = IF res = "ok" THEN "load" ELSE AfterFailure("load")
    /\ UNCHANGED <<df_input, response, df_raw, df_clean, quality_report, db, dbAvailable,
                   loadHist>>

\* STEP 4, lines 103-116.  escapes: an exception leaves load_to_duckdb itself
\* (its statements before the try block), which the runner's handler catches.
\* available: whether duckdb.connect can open the database file.
LoadStage ==
    /\ pc = "load"
    /\ \E now \in Times, escapes \in BOOLEAN, available \in BOOLEAN :
         LET l == load_to_duckdb(df_final, db, available, now)
             res == IF escapes THEN "raised" ELSE IF l.success THEN "ok" ELSE "false"
         IN  /\ db' = IF escapes THEN Aged(db) ELSE l.db
             /\ dbAvailable' = available
             /\ called' = Append(called, "load_to_duckdb")
             /\ outcome' = [outcome EXCEPT !.load = res]
             /\ pipeline_status' =
                  IF res = "raised" THEN LoadFailed(pipeline_status, "exception")
                  ELSE IF res = "false" THEN LoadFailed(pipeline_status, "")
                  ELSE StageSucceeded(pipeline_status, "load", "records loaded",
                                      Len(df_final.rows))
             /\ pc' = "summary"
    /\ UNCHANGED <<df_input, response, df_raw, df_clean, quality_report, df_final, files,
                   loadHist>>

\* PIPELINE SUMMARY, lines 119-141
Summary ==
    /\ pc = "summary"
    /\ pipeline_status' = [pipeline_status EXCEPT !.end_time = TRUE]
    /\ pc' = "returned"
    /\ UNCHANGED <<df_input, response, df_raw, df_clean, quality_report, df_final, files, called,
                   outcome, db, dbAvailable, loadHist>>

\* a row an earlier run left in news_sentiment
EarlierRow == [row |-> EnrichRow(ExtractRow(Row(Text(2, 10), Text(2, 20), 3), 1),
                                 PositiveThreshold, TRUE),
               fresh |-> FALSE]

EarlierDbs == {NoTable, [exists |-> TRUE, rows |-> <<EarlierRow>>]}

Idle ==
    /\ response = NoResponse
    /\ df_raw = EmptyDataFrame
    /\ df_clean = EmptyDataFrame
    /\ quality_report = NoReport
    /\ df_final = EmptyDataFrame
    /\ pipeline_status = NewStatus
    /\ files = {}
    /\ called = <<>>
    /\ outcome = NoOutcome
    /\ loadHist = <<>>
    /\ df_input = EmptyDataFrame

\* run_full_pipeline has built pipeline_status and is about to extract
Init ==
    /\ pc = "extract"
    /\ Idle
    /\ db \in EarlierDbs
    /\ dbAvailable = TRUE

Next == ExtractStage \/ ValidateStage \/ TransformStage \/ LoadStage \/ Summary

Spec == Init /\ [][Next]_vars

(***************************************************************************)
(* Each function called on its own, as the scripts' __main__ blocks do,    *)
(* over every table of the bounded domains.                                *)
(***************************************************************************)
RawColumns == ApiColumns \cup {"source_name", "extracted_at"}

\* extract_financial_news(...) against every modelled answer of the API
ExtractCall ==
    /\ pc = "main_extract"
    /\ \E resp \in Responses, now \in Times :
         LET e == extract_financial_news(resp, now)
         IN  /\ response' = resp
             /\ df_raw' = e.df
             /\ called' = Append(called, "extract_financial_news")
             /\ outcome' = [outcome EXCEPT !.extract =
                               IF e.raised THEN "raised"
                               ELSE IF IsEmpty(e.df) THEN "empty" ELSE "ok"]
    /\ pc' = "main_done"
    /\ UNCHANGED <<df_input, df_clean, quality_report, df_final, pipeline_status, files, db,
                   dbAvailable, loadHist>>

InitExtract ==
    /\ pc = "main_extract"
    /\ Idle
    /\ db = NoTable
    /\ dbAvailable = TRUE

NextExtract == ExtractCall

SpecExtract == InitExtract /\ [][NextExtract]_vars

\* the tables validate_news_data is called with: up to n rows
ValidateInputs(n) ==
    {DataFrame(RawColumns, r) : r \in SeqsUpTo(Rows, n)}
    \cup {DataFrame(RawColumns \ {c}, r) :
             c \in {"title", "description", "publishedAt"},
             r \in SeqsUpTo(ApiRows, n)}

\* df_clean, report = validate_news_data(df_raw)
ValidateCall ==
    /\ pc = "main_validate"
    /\ LET v == validate_news_data(df_raw)
       IN  /\ df_input' = df_raw
           /\ df_raw' = v.df
           /\ df_clean' = v.df_clean
           /\ quality_report' = v.report
           /\ outcome' = [outcome EXCEPT !.validate = IF v.raised THEN "raised" ELSE "ok"]
    /\ called' = Append(called, "validate_news_data")
    /\ pc' = "main_done"
    /\ UNCHANGED <<response, df_final, pipeline_status, files, db, dbAvailable, loadHist>>

InitValidate ==
    /\ pc = "main_validate"
    /\ response = NoResponse
    /\ df_raw \in ValidateInputs(MaxRows)
    /\ df_clean = EmptyDataFrame
    /\ quality_report = NoReport
    /\ df_final = EmptyDataFrame
    /\ pipeline_status = NewStatus
    /\ files = {}
    /\ called = <<>>
    /\ outcome = NoOutcome
    /\ loadHist = <<>>
    /\ df_input = EmptyDataFrame
    /\ db = NoTable
    /\ dbAvailable = TRUE

NextValidate == ValidateCall

SpecValidate == InitValidate /\ [][NextValidate]_vars

\* cleaned rows handed to the transformer
ScoredRows == {ExtractRow(Row(Text(2, 10), Text(2, 20), p), 1) : p \in {1, 3}}

TransformInputs ==
    {DataFrame(c, r) : c \in {RawColumns, RawColumns \ {"publishedAt"}},
                       r \in SeqsUpTo(ScoredRows, MaxScored)}

\* df_final = add_sentiment_analysis(df_clean)
TransformCall ==
    /\ pc = "main_transform"
    /\ \E scores \in [1..Len(df_clean.rows) -> Scores], analyzer_ok \in BOOLEAN :
         LET t == add_sentiment_analysis(df_clean, scores, analyzer_ok)
         IN  /\ df_final' = t.df
             /\ outcome' = [outcome EXCEPT !.transform =
                               IF t.raised THEN "raised"
                               ELSE IF IsEmpty(t.df) THEN "empty" ELSE "ok"]
    /\ called' = Append(called, "add_sentiment_analysis")
    /\ pc' = "main_done"
    /\ UNCHANGED <<df_input, response, df_raw, df_clean, quality_report, pipeline_status, files,
                   db, dbAvailable, loadHist>>

InitTransform ==
    /\ pc = "main_transform"
    /\ response = NoResponse
    /\ df_raw = EmptyDataFrame
    /\ df_clean \in TransformInputs
    /\ quality_report = NoReport
    /\ df_final = EmptyDataFrame
    /\ pipeline_status = NewStatus
    /\ files = {}
    /\ called = <<>>
    /\ outcome = NoOutcome
    /\ loadHist = <<>>
    /\ df_input = EmptyDataFrame
    /\ db = NoTable
    /\ dbAvailable = TRUE

NextTransform == TransformCall

SpecTransform == InitTransform /\ [][NextTransform]_vars

\* enriched tables handed to the loader: all the schema's columns, or one missing
AllColumns == RawColumns \cup SentimentColumns \cup DateColumns

LoadColumnSets ==
    {AllColumns, AllColumns \ {"extracted_at"}, AllColumns \ {"url"}}

LoadRows ==
    {EnrichRow(ExtractRow(Row(Text(2, 10), Text(2, 20), p), 1), PositiveThreshold, TRUE) :
        p \in {1, 3}}

\* a table without the extracted_at column carries no extraction time
WithColumns(c, r) ==
    DataFrame(c, [i \in 1..Len(r) |->
                     IF "extracted_at" \in c THEN r[i] ELSE [r[i] EXCEPT !.extracted_at = 0]])

LoadInputs ==
    {WithColumns(c, r) : c \in LoadColumnSets, r \in SeqsUpTo(LoadRows, MaxLoadRows)}

\* the last two calls of load_to_duckdb made in a row on the same database
\* file; of the earlier one, the contents it found are forgotten but their number
Remember(hist, call) ==
    IF hist = <<>> THEN <<call>>
    ELSE <<[hist[Len(hist)] EXCEPT !.before = <<>>], call>>

\* success = load_to_duckdb(df)
LoadCall ==
    /\ pc = "main_load"
    /\ \E df \in LoadInputs :
       \E now \in (IF "extracted_at" \in df.cols THEN {1} ELSE Times) :  \* line 60
         LET l == load_to_duckdb(df, db, dbAvailable, now)
         IN  /\ df_final' = df
             /\ db' = l.db
             /\ outcome' = [outcome EXCEPT !.load = IF l.success THEN "ok" ELSE "false"]
             /\ loadHist' = Remember(loadHist,
                                     [df |-> df, success |-> l.success,
                                      held |-> Len(db.rows),
                                      before |-> Contents(db), after |-> Contents(l.db)])
    /\ UNCHANGED <<df_input, pc, response, df_raw, df_clean, quality_report, pipeline_status,
                   files, called, dbAvailable>>

\* the database file becomes unreachable (locked, unwritable) or reachable again
DatabaseChanges ==
    /\ pc = "main_load"
    /\ dbAvailable' = ~dbAvailable
    /\ loadHist' = <<>>
    /\ UNCHANGED <<df_input, pc, response, df_raw, df_clean, quality_report, df_final,
                   pipeline_status, files, called, outcome, db>>

InitLoad ==
    /\ pc = "main_load"
    /\ Idle
    /\ db = NoTable
    /\ dbAvailable = TRUE

NextLoad == LoadCall \/ DatabaseChanges

SpecLoad == InitLoad /\ [][NextLoad]_vars

(***************************************************************************)
(* Properties of run_full_pipeline (Spec).                                 *)
(***************************************************************************)
Overall == pipeline_status.overall_status

LastStep == pipeline_status.steps[Len(pipeline_status.steps)]

WasCalled(f) == \E i \in 1..Len(called) : called[i] = f

\* the functions each stage of the runner calls
StageFunctions(stage) ==
    CASE stage = "extract" -> {"extract_financial_news", "save_raw_data"}
      [] stage = "validate" -> {"validate_news_data", "save_quality_report"}
      [] stage = "transform" -> {"add_sentiment_analysis", "save_transformed_data"}
      [] stage = "load" -> {"load_to_duckdb"}

\* C1: when EXTRACT, VALIDATE or TRANSFORM returns an empty table or raises,
\* the runner has returned with overall status FAILED, that stage is the last
\* one recorded (as FAILED) and no function of a later stage was called.
C1_FailedStageStopsRun ==
    \A i \in 1..3 :
        outcome[Stages[i]] \in {"empty", "raised"} =>
            /\ pc = "returned"
            /\ Overall = "FAILED"
            /\ Len(pipeline_status.steps) = i
            /\ LastStep.step = Stages[i] /\ LastStep.result = "FAILED"
            /\ \A j \in (i + 1)..4 :
                  /\ outcome[Stages[j]] = "none"
                  /\ \A f \in StageFunctions(Stages[j]) : ~WasCalled(f)

\* an "ok" answer with zero articles: the run stopped after stage 1
C1_Witness ==
    /\ pc = "returned"
    /\ response.status = "ok" /\ response.http = "2xx"
    /\ response.articles # NoArticles /\ Len(response.articles.rows) = 0
    /\ outcome.extract = "empty"
    /\ called = <<"extract_financial_news">>
    /\ Overall = "FAILED"

\* C2: when load_to_duckdb returns False or raises, overall status is WARNING,
\* the load step is recorded FAILED, and the run goes through the summary: it
\* is at the summary, or it has returned with end_time set.
C2_LoadFailureIsWarning ==
    outcome.load \in {"false", "raised"} =>
        /\ Overall = "WARNING"
        /\ LastStep.step = "load" /\ LastStep.result = "FAILED"
        /\ pc \in {"summary", "returned"}
        /\ pc = "returned" => pipeline_status.end_time

C2_Witness ==
    /\ outcome.load = "false"
    /\ pc = "returned"
    /\ pipeline_status.end_time
    /\ Overall = "WARNING"

\* C5 as stated: after a validation whose report is WARNING, validate is
\* recorded SUCCESS and the run is at TRANSFORM or has called it.
C5_WarningAlwaysContinues ==
    (outcome.validate # "none" /\ quality_report.status = "WARNING") =>
        /\ outcome.validate = "ok"
        /\ pipeline_status.steps[2].step = "validate"
        /\ pipeline_status.steps[2].result = "SUCCESS"
        /\ pc = "transform" \/ WasCalled("add_sentiment_analysis")

\* C5 amended: a WARNING report does not by itself stop the run. Unless
\* save_quality_report raises (then validate is recorded FAILED and the report
\* file is not written), validate is recorded SUCCESS and the run is at
\* TRANSFORM or has called it.
C5_WarningContinuesUnlessSaveRaises ==
    (outcome.validate # "none" /\ quality_report.status = "WARNING") =>
        /\ WasCalled("save_quality_report")
        /\ pipeline_status.steps[2].step = "validate"
        /\ \/ /\ outcome.validate = "ok"
              /\ pipeline_status.steps[2].result = "SUCCESS"
              /\ "quality_report.txt" \in files
              /\ pc = "transform" \/ WasCalled("add_sentiment_analysis")
           \/ /\ outcome.validate = "raised"
              /\ pipeline_status.steps[2].result = "FAILED"
              /\ pipeline_status.steps[2].detail = "exception"
              /\ "quality_report.txt" \notin files
              /\ pc = "returned"

\* two of three rows removed, and the transformer was called
C5_Witness ==
    /\ quality_report.status = "WARNING"
    /\ quality_report.initial_records = 3 /\ quality_report.final_records = 1
    /\ outcome.validate = "ok"
    /\ WasCalled("add_sentiment_analysis")

TableFiles == {"raw_news.csv", "clean_news.csv", "news_with_sentiment.csv"}

LoadAttempted == pc = "load" \/ WasCalled("load_to_duckdb") \/ Overall = "WARNING"

\* C10 as stated: whenever LOAD is attempted, the raw, the cleaned and the
\* enriched table have each been written to a file in this run.
C10_AllTablesPersisted == LoadAttempted => TableFiles \subseteq files

\* C10 amended: whenever LOAD is attempted (hence whenever the run ends in
\* WARNING), the raw table, the quality report and the enriched table have been
\* written in this run; the cleaned table is not written by the runner.
C10_RawReportEnrichedPersisted ==
    /\ Overall = "WARNING" => WasCalled("load_to_duckdb")
    /\ LoadAttempted =>
          files = {"raw_news.csv", "quality_report.txt", "news_with_sentiment.csv"}

C10_Witness ==
    /\ pc = "returned"
    /\ Overall = "WARNING"
    /\ WasCalled("load_to_duckdb")
    /\ "news_with_sentiment.csv" \in files

\* C11: every status record run_full_pipeline returns, whether its overall
\* status is SUCCESS, WARNING or FAILED, has both its start time and its end
\* time set.
C11_ReturnedRecordHasBothTimes ==
    pc = "returned" =>
        /\ Overall \in {"SUCCESS", "WARNING", "FAILED"}
        /\ pipeline_status.start_time
        /\ pipeline_status.end_time

\* an "ok" answer with zero articles: the record returned at line 40 is FAILED
\* and was never given an end time
C11_Witness ==
    /\ pc = "returned"
    /\ outcome.extract = "empty"
    /\ Overall = "FAILED"
    /\ pipeline_status.start_time
    /\ ~pipeline_status.end_time

\* C13: in every returned status record the recorded stages are a prefix of
\* (extract, validate, transform, load); overall status is SUCCESS iff all
\* four are recorded SUCCESS, WARNING iff the first three are recorded SUCCESS
\* and load FAILED, and FAILED iff the last recorded stage is extract, validate
\* or transform and is recorded FAILED.
C13_OverallAgreesWithSteps ==
    pc = "returned" =>
        LET steps == pipeline_status.steps
            n == Len(steps)
            succeeded(k) == \A i \in 1..k : steps[i].result = "SUCCESS"
        IN  /\ n <= Len(Stages)
            /\ \A i \in 1..n : steps[i].step = Stages[i]
            /\ \A i \in 1..n : steps[i].result \in {"SUCCESS", "FAILED"}
            /\ Overall \in {"SUCCESS", "WARNING", "FAILED"}
            /\ Overall = "SUCCESS" <=> (n = 4 /\ succeeded(4))
            /\ Overall = "WARNING" <=>
                  (n = 4 /\ succeeded(3) /\ steps[4].result = "FAILED")
            /\ Overall = "FAILED" <=> (n \in 1..3 /\ steps[n].result = "FAILED")

\* a run stopped by an empty cleaned table: extract SUCCESS, validate FAILED
C13_Witness ==
    /\ pc = "returned"
    /\ outcome.validate = "empty"
    /\ Len(pipeline_status.steps) = 2
    /\ pipeline_status.steps[1].result = "SUCCESS"
    /\ pipeline_status.steps[2].result = "FAILED"
    /\ Overall = "FAILED"

(***************************************************************************)
(* Properties of validate_news_data (SpecValidate).                        *)
(***************************************************************************)
Returned(stage) == pc = "main_done" /\ outcome[stage] # "raised"

\* C3: for a non-empty input with the title, description and publishedAt
\* columns, every returned row has a non-null title of length >= 10 and a
\* non-null description of length >= 20, and no two returned rows have the
\* same (title, publishedAt) pair.
C3_CleanRowsValid ==
    (/\ Returned("validate")
     /\ ~IsEmpty(df_raw)
     /\ {"title", "description", "publishedAt"} \subseteq df_raw.cols) =>
        /\ \A i \in 1..Len(df_clean.rows) :
              LET r == df_clean.rows[i]
              IN  /\ ~r.title.isnull /\ r.title.len >= 10
                  /\ ~r.description.isnull /\ r.description.len >= 20
        /\ \A i, j \in 1..Len(df_clean.rows) :
              (/\ df_clean.rows[i].title = df_clean.rows[j].title
               /\ df_clean.rows[i].publishedAt = df_clean.rows[j].publishedAt) => i = j

\* three rows in, one of them a duplicate, two out
C3_Witness ==
    /\ Returned("validate")
    /\ Len(df_raw.rows) = 3
    /\ quality_report.duplicates = 1
    /\ Len(df_clean.rows) = 2

\* C4: for a non-empty input, the report counts the rows of the input and of
\* the cleaned table, removed = initial - final, and status is FAILED iff
\* final = 0, WARNING iff final > 0 and (initial - final) * 100 > 50 * initial,
\* PASSED otherwise.
C4_StatusFromCounts ==
    (Returned("validate") /\ ~IsEmpty(df_raw)) =>
        LET initial == quality_report.initial_records
            final == quality_report.final_records
            high == (initial - final) * 100 > 50 * initial
        IN  /\ quality_report.has_counts
            /\ initial = Len(df_raw.rows)
            /\ final = Len(df_clean.rows)
            /\ quality_report.removed_records = initial - final
            /\ quality_report.status = "FAILED" <=> final = 0
            /\ quality_report.status = "WARNING" <=> (final > 0 /\ high)
            /\ quality_report.status = "PASSED" <=> (final > 0 /\ ~high)

\* exactly half of the rows removed: PASSED, not WARNING
C4_Witness ==
    /\ Returned("validate")
    /\ quality_report.initial_records = 2
    /\ quality_report.final_records = 1
    /\ quality_report.status = "PASSED"

\* what is wrong with row i of the table as delivered: the reasons for which
\* the checks count it
Defects(rows, i) ==
    {d \in {"null title", "null description", "duplicate", "short title",
            "short description"} :
        \/ d = "null title" /\ rows[i].title.isnull
        \/ d = "null description" /\ rows[i].description.isnull
        \/ d = "duplicate" /\ \E j \in 1..(i - 1) :
                                 /\ rows[j].title = rows[i].title
                                 /\ rows[j].publishedAt = rows[i].publishedAt
        \/ d = "short title" /\ ~rows[i].title.isnull /\ rows[i].title.len < 10
        \/ d = "short description" /\ ~rows[i].description.isnull
                                   /\ rows[i].description.len < 20}

AtMostOneDefect(rows) == \A i \in 1..Len(rows) : Cardinality(Defects(rows, i)) <= 1

\* the sum of the counts the checks report
ReportedDefects ==
    quality_report.missing_title + quality_report.missing_description
    + quality_report.duplicates + quality_report.short_titles
    + quality_report.short_descriptions

\* the first row of every repeated (title, publishedAt) pair has a description
FirstOccurrencesDescribed(rows) ==
    \A i \in 1..Len(rows) :
        (\A j \in 1..(i - 1) : ~(/\ rows[j].title = rows[i].title
                                 /\ rows[j].publishedAt = rows[i].publishedAt))
        => \/ ~rows[i].description.isnull
           \/ \A k \in (i + 1)..Len(rows) :
                 ~(/\ rows[k].title = rows[i].title
                   /\ rows[k].publishedAt = rows[i].publishedAt)

\* no two rows of one title write the same instant in two ways
TimestampsSpelledAlike(rows) ==
    \A i, j \in 1..Len(rows) :
        (/\ rows[i].title = rows[j].title
         /\ ToDatetime(rows[i].publishedAt) = ToDatetime(rows[j].publishedAt))
        => rows[i].publishedAt = rows[j].publishedAt

\* C12 as stated: for every non-empty raw table in which each row has at most
\* one of the five defects, removed_records equals the sum of the missing
\* title, missing description, duplicate, short title and short description
\* counts of the report.
C12_CountsSumToRemoved ==
    (/\ Returned("validate")
     /\ ~IsEmpty(df_input)
     /\ AtMostOneDefect(df_input.rows)) =>
        /\ quality_report.has_counts
        /\ quality_report.removed_records = ReportedDefects

\* C12 amended: the same, for the tables in which moreover the first row of
\* every repeated (title, publishedAt) pair has a description and no two rows
\* of one title write the same instant in two ways.
C12_CountsSumToRemovedWhenChecksAgree ==
    (/\ Returned("validate")
     /\ ~IsEmpty(df_input)
     /\ AtMostOneDefect(df_input.rows)
     /\ FirstOccurrencesDescribed(df_input.rows)
     /\ TimestampsSpelledAlike(df_input.rows)) =>
        /\ quality_report.has_counts
        /\ quality_report.removed_records = ReportedDefects
        /\ quality_report.final_records = Len(df_input.rows) - ReportedDefects

\* three rows, one a duplicate and one with a short title: one clean row
C12_Witness ==
    /\ Returned("validate")
    /\ Len(df_input.rows) = 3
    /\ AtMostOneDefect(df_input.rows)
    /\ FirstOccurrencesDescribed(df_input.rows)
    /\ TimestampsSpelledAlike(df_input.rows)
    /\ quality_report.duplicates = 1
    /\ quality_report.short_titles = 1
    /\ quality_report.removed_records = 2
    /\ Len(df_clean.rows) = 1

(***************************************************************************)
(* Properties of add_sentiment_analysis (SpecTransform).                   *)
(***************************************************************************)
\* C6: the label of every returned row is decided by its compound score
\* alone: positive iff compound >= 0.05, negative iff compound <= -0.05,
\* neutral otherwise; exactly one of the three labels applies.
C6_LabelFromCompound ==
    (Returned("transform") /\ ~IsEmpty(df_clean)) =>
        /\ \A i \in 1..Len(df_final.rows) :
              LET r == df_final.rows[i]
              IN  /\ r.sentiment_label \in {"positive", "negative", "neutral"}
                  /\ r.sentiment_label = "positive" <=> r.sentiment_compound >= 500
                  /\ r.sentiment_label = "negative" <=> r.sentiment_compound <= -500
                  /\ r.sentiment_label = "neutral" <=>
                        (r.sentiment_compound > -500 /\ r.sentiment_compound < 500)
        /\ \A i, j \in 1..Len(df_final.rows) :
              df_final.rows[i].sentiment_compound = df_final.rows[j].sentiment_compound
                  => df_final.rows[i].sentiment_label = df_final.rows[j].sentiment_label

\* the two boundary scores in one table
C6_Witness ==
    /\ Returned("transform")
    /\ Len(df_final.rows) = 2
    /\ df_final.rows[1].sentiment_compound = 500
    /\ df_final.rows[1].sentiment_label = "positive"
    /\ df_final.rows[2].sentiment_compound = -500
    /\ df_final.rows[2].sentiment_label = "negative"

(***************************************************************************)
(* Properties of load_to_duckdb (SpecLoad).                                *)
(***************************************************************************)
LastLoad == loadHist[Len(loadHist)]

\* C7: two calls in a row with the same non-empty table that has the
\* thirteen schema columns leave news_sentiment with the rows the first call
\* left, whatever the table held before the first call.
C7_LoadIdempotent ==
    (/\ Len(loadHist) = 2
     /\ loadHist[1].df = loadHist[2].df
     /\ ~IsEmpty(loadHist[1].df)
     /\ SchemaColumns \subseteq loadHist[1].df.cols) =>
        /\ loadHist[2].after = loadHist[1].after
        /\ Len(loadHist[2].after) = Len(loadHist[1].after)
        /\ loadHist[2].success = loadHist[1].success
        /\ loadHist[1].success => loadHist[2].after = loadHist[1].df.rows

\* the table held one row of another load, then the same two rows twice
C7_Witness ==
    /\ Len(loadHist) = 2
    /\ loadHist[1].df = loadHist[2].df
    /\ SchemaColumns \subseteq loadHist[1].df.cols
    /\ loadHist[1].held = 1
    /\ loadHist[1].success /\ loadHist[2].success
    /\ Len(loadHist[1].df.rows) = 1
    /\ loadHist[1].after # loadHist[1].before
    /\ Len(db.rows) = 1

AllFresh == \A i \in 1..Len(db.rows) : db.rows[i].fresh

\* C8 as stated: after any call of load_to_duckdb, whatever the input and
\* the result, news_sentiment holds no row of an earlier load.
C8_NoLeftoverAfterAnyLoad == loadHist # <<>> => AllFresh

\* C8 amended: after a call of load_to_duckdb with a non-empty table on a
\* database it can open, whatever the result, news_sentiment exists and holds
\* no row of an earlier load; a call with an empty table, or on a database it
\* cannot open, returns False and leaves the table as it was.
C8_NoLeftoverAfterNonEmptyLoad ==
    loadHist # <<>> =>
        IF ~IsEmpty(LastLoad.df) /\ dbAvailable
        THEN AllFresh /\ db.exists
        ELSE ~LastLoad.success /\ LastLoad.after = LastLoad.before

\* a failed load (url column missing) emptied a table that held rows
C8_Witness ==
    /\ loadHist # <<>>
    /\ ~IsEmpty(LastLoad.df) /\ dbAvailable
    /\ ~LastLoad.success
    /\ Len(LastLoad.before) = 1
    /\ db.exists /\ db.rows = <<>>

(***************************************************************************)
(* Properties of extract_financial_news (SpecExtract).                     *)
(***************************************************************************)
OkResponse ==
    /\ response.transport = "ok" /\ response.http = "2xx" /\ response.json
    /\ response.status = "ok" /\ response.articles # NoArticles

====
